---- MODULE Spec2Model ----
(***************************************************************************)
(* Model of the poll loop of the tip bot (src/src/cointipbot.py):          *)
(* CointipBot.main, CointipBot.expire_pending_tips, CointipBot.check_inbox *)
(* and CointipBot.notify, together with the ledger, parser and executor    *)
(* they call (package ctb: ctb_action, ctb_user, ctb_misc).                *)
(*                                                                         *)
(* The model starts at the entry of main(), on a bot whose attributes       *)
(* (conf, db, reddit) are set.  CointipBot.__init__ and self_checks are    *)
(* not part of it: as written __init__ raises a NameError at line 383,     *)
(* which reads init_coin where the parameter is init_coins, and            *)
(* self_checks raises an UnboundLocalError at line 148, which reads user   *)
(* before its assignment; the methods modelled here run on an object       *)
(* whose attributes were set by other means.                               *)
(***************************************************************************)
EXTENDS Integers, Sequences, FiniteSets, TLC

(***************************************************************************)
(* Bounds of the model.                                                    *)
(***************************************************************************)
MaxDeliveries == 3      \* deliveries made by the message source in a run
MaxClock == 3           \* the clock stops being advanced at this value

(***************************************************************************)
(* Configuration values read by the code.                                  *)
(***************************************************************************)
BatchLimit == 2         \* conf.reddit.scan.batch_limit
ExpireSeconds == 1      \* int(conf.misc.times.expire_pending_hours * 3600)
SleepSeconds == 1       \* conf.misc.times.sleep_seconds

BotName == "bot"        \* conf.reddit.auth.user
NoAuthor == "-"         \* m.author is None
Users == {"alice", "bob", "carol", "mallory", BotName}
BannedList == {"mallory"}  \* the users CtbUser.banned is true of

(***************************************************************************)
(* The messages the source can deliver.  A message is identified by its    *)
(* id; a re-delivery is a second occurrence of the same id in the inbox.   *)
(***************************************************************************)
MsgIds == {"m1", "m2", "m3", "m4", "m5", "m6", "m7", "m8", "m9", "m10",
           "m11", "m12"}

\* The messages whose action raises a storage error at every execution.
PoisonIds == {"m12"}

NoParse == [type |-> "none", from |-> NoAuthor, to |-> NoAuthor, amount |-> 0]

Author(id) ==
    CASE id = "m1" -> "alice"
      [] id = "m2" -> "bob"
      [] id = "m3" -> "alice"
      [] id = "m4" -> "bob"
      [] id = "m5" -> BotName
      [] id = "m6" -> "mallory"
      [] id = "m7" -> "bob"
      [] id = "m8" -> "alice"
      [] id = "m9" -> "carol"
      [] id = "m11" -> "bob"
      [] id = "m12" -> "alice"
      [] OTHER -> NoAuthor

Subject(id) ==
    CASE id = "m7" -> "hello"
      [] id = "m8" -> "post reply"
      [] id = "m11" -> "comment reply"
      [] OTHER -> "tip"

\* What the configured patterns make of the body of each message.
Body(id) ==
    CASE id = "m1" -> [type |-> "givetip", from |-> "alice", to |-> "carol", amount |-> 3]
      [] id = "m2" -> [type |-> "givetip", from |-> "bob", to |-> "alice", amount |-> 1]
      [] id = "m3" -> [type |-> "givetip", from |-> "alice", to |-> "carol", amount |-> 1]
      [] id = "m4" -> [type |-> "withdraw", from |-> "bob", to |-> NoAuthor, amount |-> 1]
      [] id = "m5" -> [type |-> "givetip", from |-> BotName, to |-> "alice", amount |-> 1]
      [] id = "m6" -> [type |-> "givetip", from |-> "mallory", to |-> "bob", amount |-> 1]
      [] id = "m9" -> [type |-> "register", from |-> "carol", to |-> NoAuthor, amount |-> 0]
      [] id = "m12" -> [type |-> "givetip", from |-> "alice", to |-> "bob", amount |-> 1]
      [] OTHER -> NoParse

InitBalance == [u \in Users |-> IF u \in {"alice", "bob"} THEN 2 ELSE 0]
InitRegistered == {"alice", "bob", BotName}
TxFee == 1              \* network fee of a withdrawal
Zones == {-1, 0, 1}     \* shift of mktime(gmtime()): east of UTC, none, west

VARIABLES
    pc,           \* position of main(): expire, inbox, process, downsleep,
                  \* sleep, failed, exited
    clock,        \* time.time(), in seconds
    inbox,        \* the unread messages of the source, oldest first
    delivered,    \* number of deliveries made so far
    batch,        \* check_inbox: messages (after reverse)
    idx,          \* check_inbox: position of the for loop in messages
    actions,      \* the ledger (table t_action), in insertion order
    balance,      \* balance of every user
    registered,   \* the registered users (table t_users)
    conf,         \* the configuration switches
    pool,         \* the messages the source delivers in this run
    mutations,    \* history: number of balance mutations made for a message id
    expiredCount, \* history: number of times a ledger row was expired
    replies,      \* history: number of "didn't understand" replies per id
    last,         \* history: what the last step of check_inbox did
    raised,       \* history: the exception raised by the last step
    notify_calls, \* history: number of calls of notify()
    notified,     \* history: number of operator notifications sent
    exit_status,  \* status of sys.exit, -1 while the process runs
    fmt,          \* ctb_stats: the row being put into a table
    timezone      \* what mktime adds to gmtime() on the host, in seconds

vars == <<pc, clock, inbox, delivered, batch, idx, actions, balance,
          registered, conf, pool, mutations, expiredCount, replies, last,
          raised, notify_calls, notified, exit_status, fmt, timezone>>

\* The variables of the bot.
bot == <<pc, clock, inbox, delivered, batch, idx, actions, balance,
         registered, conf, pool, mutations, expiredCount, replies, last,
         raised, notify_calls, notified, exit_status, timezone>>
(***************************************************************************)
(* Sequence helpers.                                                       *)
(***************************************************************************)
RECURSIVE Reverse(_)
Reverse(s) == IF s = <<>> THEN <<>> ELSE Append(Reverse(Tail(s)), Head(s))

RECURSIVE Without(_, _)
Without(s, x) ==
    IF s = <<>> THEN <<>>
    ELSE IF Head(s) = x THEN Without(Tail(s), x)
    ELSE <<Head(s)>> \o Without(Tail(s), x)

IsPrefix(s, t) == Len(s) <= Len(t) /\ SubSeq(t, 1, Len(s)) = s

Min(a, b) == IF a < b THEN a ELSE b

(***************************************************************************)
(* Message source: get_unread(limit) yields the newest unread messages,    *)
(* newest first; mark_as_read removes a message from the unread ones.      *)
(***************************************************************************)
get_unread(box, limit) ==
    Reverse(SubSeq(box, Len(box) - Min(limit, Len(box)) + 1, Len(box)))

mark_as_read(box, id) == Without(box, id)

\* Mutant: the fetched messages left in the order of the source, newest
\* first.
MessagesNotReversed(box) == get_unread(box, BatchLimit)

\* check_inbox: messages, the list fetched with the batch limit and then
\* reversed.
Messages(box) == Reverse(get_unread(box, BatchLimit))

(***************************************************************************)
(* Ledger: ctb_action.check_action and ctb_action.get_actions.             *)
(***************************************************************************)
check_action(acts, id) == \E i \in DOMAIN acts : acts[i].msg_id = id

ActionsFor(acts, id) == {i \in DOMAIN acts : acts[i].msg_id = id}

get_actions(acts, atype, state, created_before) ==
    {i \in DOMAIN acts : /\ acts[i].type = atype
                         /\ acts[i].state = state
                         /\ acts[i].created_utc < created_before}

(***************************************************************************)
(* Parser: ctb_action.eval_comment / eval_message.                         *)
(***************************************************************************)
Parse(id) == Body(id)
(***************************************************************************)
(* Executor: action.do() of ctb_action.  The result is the state the       *)
(* action is saved with and the balances and users after it; the balance   *)
(* writes and the save are one transaction.                                *)
(***************************************************************************)
\* Mutant: an executor that forgets the network fee in the balance check of
\* a withdrawal.
ExecuteNoFeeCheck(a, bal, reg) ==
    CASE a.type = "register" ->
            [state |-> "completed", balance |-> bal,
             registered |-> reg \cup {a.from}, mutated |-> FALSE]
      [] a.type = "givetip" ->
            IF a.from \notin reg \/ bal[a.from] < a.amount
            THEN [state |-> "declined", balance |-> bal,
                  registered |-> reg, mutated |-> FALSE]
            ELSE IF a.to \notin reg
            THEN [state |-> "pending", balance |-> bal,
                  registered |-> reg, mutated |-> FALSE]
            ELSE [state |-> "completed",
                  balance |-> [bal EXCEPT ![a.from] = @ - a.amount,
                                          ![a.to] = @ + a.amount],
                  registered |-> reg, mutated |-> TRUE]
      [] OTHER ->
            IF a.from \notin reg \/ bal[a.from] < a.amount
            THEN [state |-> "declined", balance |-> bal,
                  registered |-> reg, mutated |-> FALSE]
            ELSE [state |-> "completed",
                  balance |-> [bal EXCEPT ![a.from] = @ - (a.amount + TxFee)],
                  registered |-> reg, mutated |-> TRUE]

Execute(a, bal, reg) ==
    CASE a.type = "register" ->
            [state |-> "completed", balance |-> bal,
             registered |-> reg \cup {a.from}, mutated |-> FALSE]
      [] a.type = "givetip" ->
            IF a.from \notin reg \/ bal[a.from] < a.amount
            THEN [state |-> "declined", balance |-> bal,
                  registered |-> reg, mutated |-> FALSE]
            ELSE IF a.to \notin reg
            THEN [state |-> "pending", balance |-> bal,
                  registered |-> reg, mutated |-> FALSE]
            ELSE [state |-> "completed",
                  balance |-> [bal EXCEPT ![a.from] = @ - a.amount,
                                          ![a.to] = @ + a.amount],
                  registered |-> reg, mutated |-> TRUE]
      [] a.type = "withdraw" ->
            IF a.from \notin reg \/ bal[a.from] < a.amount + TxFee
            THEN [state |-> "declined", balance |-> bal,
                  registered |-> reg, mutated |-> FALSE]
            ELSE [state |-> "completed",
                  balance |-> [bal EXCEPT ![a.from] = @ - (a.amount + TxFee)],
                  registered |-> reg, mutated |-> TRUE]
      [] OTHER ->
            [state |-> "declined", balance |-> bal,
             registered |-> reg, mutated |-> FALSE]

\* The row action.save() inserts into the ledger.
Row(id, a, state, now) ==
    [msg_id |-> id, type |-> a.type, state |-> state, from |-> a.from,
     to |-> a.to, amount |-> a.amount, created_utc |-> now]

\* a.expire(): a pending row becomes expired; balances are not touched.
expire(acts, i) == [acts EXCEPT ![i].state = "expired"]

RECURSIVE ExpireAll(_, _)
ExpireAll(acts, is) ==
    IF is = {} THEN acts
    ELSE LET i == CHOOSE j \in is : \A k \in is : j <= k
         IN  ExpireAll(expire(acts, i), is \ {i})

\* time.mktime(time.gmtime()) at the time now: gmtime() gives the UTC time
\* and mktime reads it as a local time without daylight saving, so the
\* result is time.time() moved by the offset the zone of the host has for
\* such a time (which the C library need not report as time.timezone).
mktime_gmtime(now) == now + timezone

\* expire_pending_tips: the pending tips created before
\* time.mktime(time.gmtime()) - seconds.
ExpireCandidates(acts, now) ==
    get_actions(acts, "givetip", "pending", mktime_gmtime(now) - ExpireSeconds)

\* CtbUser.banned
banned(u) == u \in BannedList

(***************************************************************************)
(* check_inbox: the checks made on a message before it is parsed, in the   *)
(* order the loop body makes them.                                         *)
(***************************************************************************)
\* Mutant: the duplicate check made after the author checks.
SkipChecksDedupLast == <<"author", "self", "banned", "dedup">>

\* Mutant: the loop body without the duplicate check.
SkipChecksNoDedup == <<"author", "self", "banned">>

SkipChecks == <<"author", "dedup", "self", "banned">>

Hits(check, id, acts, cf) ==
    CASE check = "author" -> Author(id) = NoAuthor
      [] check = "dedup"  -> check_action(acts, id)
      [] check = "self"   -> Author(id) # NoAuthor /\ Author(id) = BotName
      [] check = "banned" -> /\ Author(id) # NoAuthor
                             /\ cf.banned_users
                             /\ banned(Author(id))
      [] OTHER -> FALSE

\* The checks evaluated for a message: up to and including the first hit.
RECURSIVE ChecksRun(_, _, _, _)
ChecksRun(checks, id, acts, cf) ==
    IF checks = <<>> THEN <<>>
    ELSE IF Hits(Head(checks), id, acts, cf) THEN <<Head(checks)>>
    ELSE <<Head(checks)>> \o ChecksRun(Tail(checks), id, acts, cf)

\* The branch of the loop body a message takes.
Path(id, acts, cf) ==
    LET run == ChecksRun(SkipChecks, id, acts, cf)
    IN  IF run # <<>> /\ Hits(run[Len(run)], id, acts, cf)
        THEN run[Len(run)]
        ELSE IF Parse(id).type # "none" THEN "action" ELSE "nomatch"

\* Mutant: the reply sent whatever the subject of the message.
SorryAnySubject(id, cf) == cf.sorry

\* The condition under which a "didn't understand" reply is sent.
SorryWanted(id, cf) ==
    cf.sorry /\ Subject(id) \notin {"post reply", "comment reply"}

\* The exceptions check_inbox treats as "Reddit is down".
IsTransient(e) == e = "transient"
\* Where check_inbox goes after an exception raised in its try block: both
\* handlers return to main(), the first after a sleep of its own.
\* Mutant: no handler for the transient errors in check_inbox, so that they
\* reach the handler of main().
AfterErrorUnhandled(e) == IF IsTransient(e) THEN "failed" ELSE "sleep"

AfterError(e) == IF IsTransient(e) THEN "downsleep" ELSE "sleep"

\* main(): the handler notifies the operator if notification is enabled.
\* Mutant: the handler notifies whatever the configuration says.
NotifyAlways(cf) == TRUE

NotifyWanted(cf) == cf.notify

\* The first k rows of a set of ledger rows, in ledger order.
FirstK(is, k) == {i \in is : Cardinality({j \in is : j < i}) < k}

NoStep == [id |-> NoAuthor, checks |-> <<>>, path |-> "none",
           parsed |-> FALSE, executed |-> FALSE, tell_called |-> FALSE,
           replied |-> FALSE, mark_called |-> FALSE, marked |-> FALSE]

(***************************************************************************)
(* The statistics pages (ctb_stats.py).  A text is the sequence of its     *)
(* characters.  A row value is a str, an int, a float (counted in tenths)  *)
(* or None.  format_value returns a str, None (no return statement is     *)
(* reached) or the row value itself, or it raises a TypeError.             *)
(***************************************************************************)
StrVal(s) == [t |-> "str", s |-> s, n |-> 0]
IntVal(n) == [t |-> "int", s |-> <<>>, n |-> n]
FloatVal(tenths) == [t |-> "float", s |-> <<>>, n |-> tenths]
NoneVal == [t |-> "None", s |-> <<>>, n |-> 0]

\* Python's truth value of a row value.
Truthy(v) ==
    CASE v.t = "str" -> v.s # <<>>
      [] v.t = "None" -> FALSE
      [] OTHER -> v.n # 0

\* str.find: the lowest index, from 0, at which w occurs in s; -1 if none.
find(s, w) ==
    LET at == {i \in 0 .. Len(s) - Len(w) : SubSeq(s, i + 1, i + Len(w)) = w}
    IN  IF at = {} THEN -1 ELSE CHOOSE i \in at : \A j \in at : i <= j

Upper == <<"A", "B", "C", "D", "E", "F", "G", "H", "I", "J", "K", "L", "M", "N", "O", "P", "Q", "R", "S", "T", "U", "V", "W", "X", "Y", "Z">>
Lower == <<"a", "b", "c", "d", "e", "f", "g", "h", "i", "j", "k", "l", "m", "n", "o", "p", "q", "r", "s", "t", "u", "v", "w", "x", "y", "z">>
\* str.lower
lower(s) ==
    [i \in 1 .. Len(s) |->
        IF \E j \in 1 .. Len(Upper) : Upper[j] = s[i]
        THEN Lower[CHOOSE j \in 1 .. Len(Upper) : Upper[j] = s[i]]
        ELSE s[i]]

\* re.escape: a backslash before every character special to a pattern.
\* The character U+000B, the vertical tab.
VerticalTab == "U+000B"
Special == {"(", ")", "[", "]", "{", "}", "?", "*", "+", "-", "|", "^", "$",
            "\\", ".", "&", "~", "#", " ", "\t", "\n", "\r", "\f",
            VerticalTab}
RECURSIVE re_escape(_)
re_escape(s) ==
    IF s = <<>> THEN <<>>
    ELSE (IF Head(s) \in Special THEN <<"\\", Head(s)>> ELSE <<Head(s)>>)
         \o re_escape(Tail(s))

\* str of a natural number.
DigitChars == <<"0", "1", "2", "3", "4", "5", "6", "7", "8", "9">>
RECURSIVE Digits(_)
Digits(n) ==
    IF n < 10 THEN <<DigitChars[n + 1]>>
    ELSE Append(Digits(n \div 10), DigitChars[(n % 10) + 1])

RECURSIVE Pow10(_)
Pow10(r) == IF r = 0 THEN 1 ELSE 10 * Pow10(r - 1)

\* A sequence of digits without its trailing zeros.
RECURSIVE StripZeros(_)
StripZeros(ds) ==
    IF ds # <<>> /\ ds[Len(ds)] = "0"
    THEN StripZeros(SubSeq(ds, 1, Len(ds) - 1)) ELSE ds

\* "%.5g" of a float of tenths: five significant digits, the half rounded
\* to even, no trailing zero after the point, and the form d.dddde+XX from
\* 100000 on.
G5(tenths) ==
    LET len == Len(Digits(tenths))
    IN  IF len <= 5
        THEN Digits(tenths \div 10)
             \o (IF tenths % 10 = 0 THEN <<>>
                                    ELSE <<".">> \o Digits(tenths % 10))
        ELSE LET p    == Pow10(len - 5)
                 q    == tenths \div p
                 rem  == tenths % p
                 up   == 2 * rem > p \/ (2 * rem = p /\ q % 2 = 1)
                 q1   == IF up THEN q + 1 ELSE q
                 over == q1 = 100000
                 m    == IF over THEN 10000 ELSE q1
                 e    == len - 2 + (IF over THEN 1 ELSE 0)
                 ds   == Digits(m)
                 frac == StripZeros(SubSeq(ds, 2, 5))
             IN  IF e < 5 THEN ds
                 ELSE <<ds[1]>>
                      \o (IF frac = <<>> THEN <<>> ELSE <<".">> \o frac)
                      \o <<"e", "+">>
                      \o (IF e < 10 THEN <<"0">> \o Digits(e) ELSE Digits(e))

\* str of a row value.
str(v) ==
    CASE v.t = "str" -> v.s
      [] v.t = "int" -> Digits(v.n)
      [] v.t = "float" -> Digits(v.n \div 10) \o <<".">> \o Digits(v.n % 10)
      [] OTHER -> <<"N", "o", "n", "e">>

\* The civil date of a day counted from 1970-01-01, as <<year, month, day>>.
civil_from_days(days) ==
    LET z   == days + 719468
        era == z \div 146097
        doe == z - era * 146097
        yoe == (doe - doe \div 1460 + doe \div 36524 - doe \div 146096)
               \div 365
        doy == doe - (365 * yoe + yoe \div 4 - yoe \div 100)
        mp  == (5 * doy + 2) \div 153
        d   == doy - (153 * mp + 2) \div 5 + 1
        mo  == IF mp < 10 THEN mp + 3 ELSE mp - 9
        y   == yoe + era * 400 + (IF mo <= 2 THEN 1 ELSE 0)
    IN  <<y, mo, d>>

\* time.strftime("%Y-%m-%d", time.localtime(t)): the date of t seconds after
\* the epoch in the zone of the host, fmt.gmtoff being the offset that zone
\* has at t (tm_gmtoff, seconds east of UTC, daylight saving time included).
Pad2(n) == IF n < 10 THEN <<"0">> \o Digits(n) ELSE Digits(n)
strftime(t) ==
    LET date == civil_from_days((t + fmt.gmtoff) \div 86400)
    IN  Digits(date[1]) \o <<"-">> \o Pad2(date[2]) \o <<"-">> \o Pad2(date[3])

\* s[:6] and s[-5:]
First6(s) == SubSeq(s, 1, Min(6, Len(s)))
Last5(s) == SubSeq(s, Len(s) - Min(5, Len(s)) + 1, Len(s))

\* ctb.conf as format_value reads it.
CoinSymbol == <<"N", "Y", "A", "N">>
ExplorerAddress == <<"/", "/", "x", "/">>
StatsSubreddit == <<"n", "y", "a", "n">>
StatsPage == <<"s", "t", "a", "t", "s">>

\* The character U+2713, the check mark of a completed state.
CheckMark == "U+2713"

Str(s) == [kind |-> "str", s |-> s, n |-> 0]
None == [kind |-> "None", s |-> <<>>, n |-> 0]
\* m[k] itself returned.
Raw(v) == [kind |-> v.t, s |-> v.s, n |-> v.n]
\* A TypeError raised inside format_value.
TypeError == [kind |-> "TypeError", s |-> <<>>, n |-> 0]

\* format_value(m, k, username, ctb, compact), v being m[k].
format_value(v, k, username, compact) ==
    IF ~Truthy(v) THEN Str(<<"-">>)
    ELSE IF v.t = "float" /\ find(k, <<"c", "o", "i", "n">>) > -1
    THEN Str(CoinSymbol \o <<"&", "n", "b", "s", "p", ";">> \o G5(v.n))
    ELSE IF find(k, <<"u", "s", "e", "r">>) > -1 /\ v.t = "str"
    THEN IF compact
         THEN IF lower(v.s) = lower(username)
              THEN Str(<<"*", "*", "/", "u", "/">> \o v.s \o <<"*", "*">>)
              ELSE Str(<<"/", "u", "/">> \o v.s)
         ELSE LET un == IF lower(v.s) = lower(username)
                        THEN <<"*", "*">> \o v.s \o <<"*", "*">> ELSE v.s
                  toreturn == <<"[">> \o un \o <<"]", "(", "/", "u", "/">> \o re_escape(v.s) \o <<")">>
              IN  IF lower(v.s) # lower(username)
                  THEN Str(toreturn \o <<"^", "[", "[", "s", "t", "a", "t", "s", "]", "]", "(", "/", "r", "/">> \o StatsSubreddit
                           \o <<"/", "w", "i", "k", "i", "/">> \o StatsPage \o <<"_">> \o v.s \o <<")">>)
                  ELSE Str(toreturn)
    ELSE IF find(k, <<"a", "d", "d", "r">>) > -1
    THEN IF v.t # "str" THEN TypeError
         ELSE Str(<<"[">> \o First6(v.s) \o <<".", ".", ".">> \o Last5(v.s) \o <<"]", "(">>
                  \o ExplorerAddress \o v.s \o <<")">>)
    ELSE IF find(k, <<"s", "t", "a", "t", "e">>) > -1
    THEN IF v = StrVal(<<"c", "o", "m", "p", "l", "e", "t", "e", "d">>) THEN Str(<<CheckMark>>) ELSE Raw(v)
    ELSE IF find(k, <<"t", "y", "p", "e">>) > -1
    THEN IF v = StrVal(<<"g", "i", "v", "e", "t", "i", "p">>) THEN Str(<<"t", "i", "p">>)
         ELSE IF compact /\ v = StrVal(<<"w", "i", "t", "h", "d", "r", "a", "w">>) THEN Str(<<"w">>)
         ELSE None
    ELSE IF find(k, <<"s", "u", "b", "r", "e", "d", "d", "i", "t">>) > -1
    THEN Str(<<"/", "r", "/">> \o str(v))
    ELSE IF find(k, <<"l", "i", "n", "k">>) > -1
    THEN Str(<<"[", "l", "i", "n", "k", "]", "(">> \o str(v) \o <<")">>)
    ELSE IF find(k, <<"u", "t", "c">>) > -1
    THEN IF v.t = "str" THEN TypeError
         ELSE Str(strftime(IF v.t = "float" THEN v.n \div 10 ELSE v.n))
    ELSE Str(str(v))

\* "|".join(values): a TypeError when a value is not a str.
RECURSIVE JoinStrs(_)
JoinStrs(values) ==
    IF Len(values) = 1 THEN values[1].s
    ELSE values[1].s \o <<"|">> \o JoinStrs(Tail(values))
join(values) ==
    IF \E i \in DOMAIN values : values[i].kind # "str"
    THEN TypeError
    ELSE IF values = <<>> THEN Str(<<>>) ELSE Str(JoinStrs(values))

\* "%s" % value, of a result of format_value.
pct_s(r) ==
    CASE r.kind = "str" -> r.s
      [] r.kind = "None" -> <<"N", "o", "n", "e">>
      [] OTHER -> str([t |-> r.kind, s |-> r.s, n |-> r.n])

\* m[k] of a row: whether the row has the column, and its value.
Has(row, k) == \E i \in DOMAIN row : row[i].k = k
Get(row, k) == row[CHOOSE i \in DOMAIN row : row[i].k = k].v

\* update_user_stats, lines 205-209: the row counted as tipped or received.
Counted(tipped, received) ==
    [err |-> "none", tipped |-> tipped, received |-> received]
CountError(e) == [err |-> e, tipped |-> 0, received |-> 0]
history_counts(row, username) ==
    IF ~Has(row, <<"s", "t", "a", "t", "e">>) THEN CountError("KeyError")
    ELSE IF Get(row, <<"s", "t", "a", "t", "e">>) # StrVal(<<"c", "o", "m", "p", "l", "e", "t", "e", "d">>) THEN Counted(0, 0)
    ELSE IF ~Has(row, <<"f", "r", "o", "m", "_", "u", "s", "e", "r">>) THEN CountError("KeyError")
    ELSE IF Get(row, <<"f", "r", "o", "m", "_", "u", "s", "e", "r">>).t # "str" THEN CountError("AttributeError")
    ELSE IF lower(Get(row, <<"f", "r", "o", "m", "_", "u", "s", "e", "r">>).s) = lower(username)
    THEN Counted(1, 0)
    ELSE IF ~Has(row, <<"t", "o", "_", "u", "s", "e", "r">>) THEN CountError("KeyError")
    ELSE IF Get(row, <<"t", "o", "_", "u", "s", "e", "r">>).t # "str" THEN CountError("AttributeError")
    ELSE IF lower(Get(row, <<"t", "o", "_", "u", "s", "e", "r">>).s) = lower(username)
    THEN Counted(0, 1)
    ELSE Counted(0, 0)

\* The columns of the tables, in the order of the query, and the values the
\* ledger and the count queries hold in them.
MaxCols == 3
ColumnOrder == <<<<"t", "y", "p", "e">>, <<"s", "t", "a", "t", "e">>, <<"f", "r", "o", "m", "_", "u", "s", "e", "r">>, <<"t", "o", "_", "u", "s", "e", "r">>, <<"c", "o", "i", "n", "_", "v", "a", "l">>,
                 <<"t", "o", "_", "a", "d", "d", "r">>, <<"s", "u", "b", "r", "e", "d", "d", "i", "t">>, <<"m", "s", "g", "_", "l", "i", "n", "k">>, <<"c", "r", "e", "a", "t", "e", "d", "_", "u", "t", "c">>,
                 <<"c", "o", "u", "n", "t">>, <<"s", "t", "a", "t", "e", "_", "c", "o", "u", "n", "t">>, <<"a", "d", "d", "r", "_", "c", "o", "u", "n", "t">>>>
Columns == {ColumnOrder[i] : i \in DOMAIN ColumnOrder}
ColumnValues(k) ==
    CASE k = <<"t", "y", "p", "e">> -> {StrVal(<<"g", "i", "v", "e", "t", "i", "p">>), StrVal(<<"w", "i", "t", "h", "d", "r", "a", "w">>),
                         StrVal(<<"r", "e", "d", "e", "e", "m">>), NoneVal}
      [] k = <<"s", "t", "a", "t", "e">> -> {StrVal(<<"c", "o", "m", "p", "l", "e", "t", "e", "d">>), StrVal(<<"p", "e", "n", "d", "i", "n", "g">>), NoneVal}
      [] k = <<"f", "r", "o", "m", "_", "u", "s", "e", "r">> -> {StrVal(<<"A", "l", "i", "c", "e">>), StrVal(<<"a", "-", "b">>), NoneVal}
      [] k = <<"t", "o", "_", "u", "s", "e", "r">> -> {StrVal(<<"a", "l", "i", "c", "e">>), NoneVal}
      [] k = <<"c", "o", "i", "n", "_", "v", "a", "l">> -> {FloatVal(15), FloatVal(20), FloatVal(123456),
                             FloatVal(0)}
      [] k = <<"t", "o", "_", "a", "d", "d", "r">> -> {StrVal(<<"N", "A", "b", "c", "d", "e", "f", "g", "h", "1", "2", "3">>), NoneVal}
      [] k = <<"s", "u", "b", "r", "e", "d", "d", "i", "t">> -> {StrVal(<<"n", "y", "a", "n">>), NoneVal}
      [] k = <<"m", "s", "g", "_", "l", "i", "n", "k">> -> {StrVal(<<"/", "m", "/", "x", "1">>), NoneVal}
      [] k = <<"c", "r", "e", "a", "t", "e", "d", "_", "u", "t", "c">> -> {IntVal(3456000), FloatVal(8640000),
                                IntVal(0)}
      [] k = <<"s", "t", "a", "t", "e", "_", "c", "o", "u", "n", "t">> -> {IntVal(3)}
      [] k = <<"a", "d", "d", "r", "_", "c", "o", "u", "n", "t">> -> {IntVal(7)}
      [] OTHER -> {IntVal(12), IntVal(0)}
\* The rows of at most n columns, taken in their order from the column of
\* position first on.
RECURSIVE RowsOf(_, _)
RowsOf(first, n) ==
    IF n = 0 THEN {<<>>}
    ELSE {<<>>} \cup
         UNION {{<<[k |-> ColumnOrder[p], v |-> v]>> \o r :
                    v \in ColumnValues(ColumnOrder[p]),
                    r \in RowsOf(p + 1, n - 1)} :
                p \in first .. Len(ColumnOrder)}
Rows == RowsOf(1, MaxCols) \ {<<>>}
Usernames == {<<>>, <<"a", "l", "i", "c", "e">>}
\* The offsets of the zone of the host at the time of a value.
Offsets == {-1, 0, 1}
\* The functions that call format_value, update_stats with a query of type
\* "line" and of type "table", and a call of format_value itself.
TableCallers == {"update_stats_table", "update_tips", "update_user_stats"}
Callers == TableCallers \cup {"update_stats_line", "format_value"}

NoLine == [kind |-> "unset", s |-> <<>>, n |-> 0]
Raised(e) == [kind |-> e, s |-> <<>>, n |-> 0]
NoCall == [caller |-> "none", row |-> <<>>, username |-> <<>>,
           compact |-> FALSE, gmtoff |-> 0, counted |-> FALSE,
           num_tipped |-> 0, num_received |-> 0, values |-> <<>>,
           line |-> NoLine]

\* The state at the entry of main(), before its first iteration.
Start ==
    /\ pc = "expire"
    /\ clock = 0
    /\ inbox = <<>>
    /\ delivered = 0
    /\ batch = <<>>
    /\ idx = 1
    /\ actions = <<>>
    /\ balance = InitBalance
    /\ registered = InitRegistered
    /\ mutations = [id \in MsgIds |-> 0]
    /\ expiredCount = <<>>
    /\ replies = [id \in MsgIds |-> 0]
    /\ last = NoStep
    /\ raised = "none"
    /\ notify_calls = 0
    /\ notified = 0
    /\ exit_status = -1

\* Runs on tips and withdrawals.
LedgerPool == {"m1", "m2", "m3", "m4"}
Init ==
    /\ Start
    /\ fmt = NoCall
    /\ timezone = 0
    /\ pool = LedgerPool
    /\ conf = [sorry |-> TRUE, notify |-> TRUE, banned_users |-> TRUE]

\* Runs on messages the loop skips, beside a tip and a registration.
SkipPool == {"m1", "m5", "m6", "m9", "m10"}
InitSkips ==
    /\ Start
    /\ fmt = NoCall
    /\ timezone = 0
    /\ pool = SkipPool
    /\ conf \in [sorry : {TRUE}, notify : {TRUE}, banned_users : BOOLEAN]

\* Runs on messages no pattern matches, beside one that makes an action,
\* under every setting of the reply and notification switches.
ReplyPool == {"m2", "m7", "m8", "m11"}
InitReplies ==
    /\ Start
    /\ fmt = NoCall
    /\ timezone = 0
    /\ pool = ReplyPool
    /\ conf \in [sorry : BOOLEAN, notify : BOOLEAN, banned_users : {TRUE}]

(***************************************************************************)
(* The message source delivers a message: a new one, or one delivered      *)
(* before.  The bot reads the inbox only in the fetch of check_inbox, so   *)
(* the deliveries of an iteration are taken right before that fetch.       *)
(***************************************************************************)
Deliver(id) ==
    /\ pc = "inbox"
    /\ id \in pool
    /\ delivered < MaxDeliveries
    /\ inbox' = Append(inbox, id)
    /\ delivered' = delivered + 1
    /\ UNCHANGED <<fmt, timezone, pc, clock, batch, idx, actions, balance, registered, conf,
                   pool, mutations, expiredCount, replies, last, raised,
                   notify_calls, notified, exit_status>>

(***************************************************************************)
(* main(): self.expire_pending_tips().  The sweep either expires every     *)
(* candidate, or raises after it expired the first k of them; an exception *)
(* reaches the handler of main().                                          *)
(***************************************************************************)
ExpireSweep ==
    /\ pc = "expire"
    /\ LET cands == ExpireCandidates(actions, clock)
       IN  \E e \in {"none", "transient", "other"} :
           \E k \in 0 .. Cardinality(cands) :
              /\ e = "none" => k = Cardinality(cands)
              /\ actions' = ExpireAll(actions, FirstK(cands, k))
              /\ expiredCount' =
                    [i \in DOMAIN expiredCount |->
                        IF i \in FirstK(cands, k) THEN expiredCount[i] + 1
                                                  ELSE expiredCount[i]]
              /\ raised' = e
              /\ pc' = IF e = "none" THEN "inbox" ELSE "failed"
    /\ UNCHANGED <<fmt, timezone, clock, inbox, delivered, batch, idx, balance, registered,
                   conf, pool, mutations, replies, last, notify_calls,
                   notified, exit_status>>

(***************************************************************************)
(* check_inbox(): fetch the unread messages and reverse them.              *)
(***************************************************************************)
Fetch ==
    /\ pc = "inbox"
    /\ \E e \in {"none", "transient", "other"} :
          /\ raised' = e
          /\ IF e = "none"
             THEN LET messages == Messages(inbox)
                  IN  /\ batch' = messages
                      /\ pc' = IF messages = <<>> THEN "sleep" ELSE "process"
             ELSE /\ batch' = <<>>
                  /\ pc' = AfterError(e)
    /\ idx' = 1
    /\ last' = NoStep
    /\ UNCHANGED <<fmt, timezone, clock, inbox, delivered, actions, balance, registered, conf,
                   pool, mutations, expiredCount, replies, notify_calls,
                   notified, exit_status>>
(***************************************************************************)
(* check_inbox(): one pass of the body of "for m in messages".  Every call *)
(* of the body that leaves the process can raise, and at most one does,    *)
(* since an exception leaves the loop (the try block encloses the whole     *)
(* loop).  The calls, in the order of the body:                            *)
(*   check_action    ctb_action.check_action, the duplicate check          *)
(*   banned          ctb_user.CtbUser() and u.banned, made when the list   *)
(*                   of banned users is in use                             *)
(*   eval            eval_comment or eval_message                          *)
(*   do              action.do()                                           *)
(*   render          CtbUser(), get_template, permalink and render, before *)
(*                   the "didn't understand" reply                         *)
(*   tell            user.tell()                                           *)
(*   mark_as_read    m.mark_as_read(), in every branch                     *)
(* A call that changes something (do, tell, mark_as_read) can raise before *)
(* its change was made or after it: "done" says which.  The exception is a *)
(* transient upstream error or another one.                                *)
(***************************************************************************)
FaultSites == {"none", "check_action", "banned", "eval", "do", "render",
               "tell", "mark_as_read"}

\* The calls that can have made their change when they raise.
Effectful == {"do", "tell", "mark_as_read"}

\* The calls made before the branch of the message is known.
Early == {"check_action", "banned", "eval"}

\* The skip check a call belongs to.
CheckOf(site) == IF site = "check_action" THEN "dedup" ELSE site

\* The checks of a sequence up to and including check c.
RECURSIVE UpTo(_, _)
UpTo(checks, c) ==
    IF checks = <<>> THEN <<>>
    ELSE IF Head(checks) = c THEN <<c>>
    ELSE <<Head(checks)>> \o UpTo(Tail(checks), c)

\* Whether the body makes the call for this message when no earlier call
\* raises.
Reached(site, id, acts, cf) ==
    LET run  == ChecksRun(SkipChecks, id, acts, cf)
        path == Path(id, acts, cf)
        evaluated(c) == \E i \in DOMAIN run : run[i] = c
    IN  CASE site = "check_action" -> evaluated("dedup")
          [] site = "banned"       -> evaluated("banned") /\ cf.banned_users
          [] site = "eval"         -> path \in {"action", "nomatch"}
          [] site = "do"           -> path = "action"
          [] site \in {"render", "tell"} ->
                path = "nomatch" /\ SorryWanted(id, cf)
          [] OTHER -> TRUE

ProcessMessage ==
    /\ pc = "process"
    /\ idx <= Len(batch)
    /\ \E site \in FaultSites :
       \E kind \in {"transient", "other"} :
       \E done \in BOOLEAN :
          LET id       == batch[idx]
              full     == ChecksRun(SkipChecks, id, actions, conf)
              run      == IF site \in {"check_action", "banned"}
                          THEN UpTo(full, CheckOf(site)) ELSE full
              branch   == Path(id, actions, conf)
              path     == IF site \in Early THEN "fault" ELSE branch
              parsed   == path \in {"action", "nomatch"}
              a        == Parse(id)
              res      == Execute(a, balance, registered)
              executed == path = "action"
              saved    == executed /\ (site = "do" => done)
              tells    == /\ path = "nomatch"
                          /\ SorryWanted(id, conf)
                          /\ site # "render"
              replied  == tells /\ (site = "tell" => done)
              marks    == site \in {"none", "mark_as_read"}
              marked   == marks /\ (site = "mark_as_read" => done)
              err      == IF site = "none" THEN "none" ELSE kind
          IN  /\ Reached(site, id, actions, conf)
              /\ site = "none" => kind = "other"
              /\ site \notin Effectful => ~done
              /\ (executed /\ id \in PoisonIds) =>
                    (site = "do" /\ kind = "other" /\ ~done)
              /\ actions' = IF saved
                            THEN Append(actions, Row(id, a, res.state, clock))
                            ELSE actions
              /\ expiredCount' = IF saved THEN Append(expiredCount, 0)
                                          ELSE expiredCount
              /\ balance' = IF saved THEN res.balance ELSE balance
              /\ registered' = IF saved THEN res.registered ELSE registered
              /\ mutations' = IF saved /\ res.mutated
                              THEN [mutations EXCEPT ![id] = @ + 1]
                              ELSE mutations
              /\ replies' = IF replied THEN [replies EXCEPT ![id] = @ + 1]
                                       ELSE replies
              /\ inbox' = IF marked THEN mark_as_read(inbox, id) ELSE inbox
              /\ last' = [id |-> id, checks |-> run, path |-> path,
                          parsed |-> parsed, executed |-> executed,
                          tell_called |-> tells, replied |-> replied,
                          mark_called |-> marks, marked |-> marked]
              /\ raised' = err
              /\ IF err # "none"
                 THEN /\ pc' = AfterError(err) /\ batch' = <<>> /\ idx' = 1
                 ELSE IF idx = Len(batch)
                 THEN /\ pc' = "sleep" /\ batch' = <<>> /\ idx' = 1
                 ELSE /\ pc' = "process" /\ batch' = batch /\ idx' = idx + 1
    /\ UNCHANGED <<fmt, timezone, clock, delivered, conf, pool, notify_calls,
                   notified, exit_status>>

(***************************************************************************)
(* check_inbox(): time.sleep in the handler of the transient errors, after *)
(* which check_inbox returns to main().                                    *)
(***************************************************************************)
DownSleep ==
    /\ pc = "downsleep"
    /\ clock + SleepSeconds <= MaxClock
    /\ clock' = clock + SleepSeconds
    /\ pc' = "sleep"
    /\ UNCHANGED <<fmt, timezone, inbox, delivered, batch, idx, actions, balance, registered,
                   conf, pool, mutations, expiredCount, replies, last, raised,
                   notify_calls, notified, exit_status>>

(***************************************************************************)
(* main(): time.sleep at the end of an iteration; the next one follows.    *)
(***************************************************************************)
Sleep ==
    /\ pc = "sleep"
    /\ clock + SleepSeconds <= MaxClock
    /\ clock' = clock + SleepSeconds
    /\ pc' = "expire"
    /\ last' = NoStep
    /\ UNCHANGED <<fmt, timezone, inbox, delivered, batch, idx, actions, balance, registered,
                   conf, pool, mutations, expiredCount, replies, raised,
                   notify_calls, notified, exit_status>>

(***************************************************************************)
(* main(): the handler of an exception of the iteration.  notify() can     *)
(* itself raise; the process then ends on that exception, with status 1.   *)
(***************************************************************************)
MainExcept ==
    /\ pc = "failed"
    /\ \E smtp \in {"ok", "error"} :
          /\ NotifyWanted(conf) \/ smtp = "ok"
          /\ notify_calls' = IF NotifyWanted(conf) THEN notify_calls + 1
                                                 ELSE notify_calls
          /\ notified' = IF NotifyWanted(conf) /\ smtp = "ok"
                         THEN notified + 1 ELSE notified
    /\ exit_status' = 1
    /\ pc' = "exited"
    /\ UNCHANGED <<fmt, timezone, clock, inbox, delivered, batch, idx, actions, balance,
                   registered, conf, pool, mutations, expiredCount, replies,
                   last, raised>>

Next ==
    \/ \E id \in MsgIds : Deliver(id)
    \/ ExpireSweep
    \/ Fetch
    \/ ProcessMessage
    \/ DownSleep
    \/ Sleep
    \/ MainExcept

Spec == Init /\ [][Next]_vars
SpecSkips == InitSkips /\ [][Next]_vars
SpecReplies == InitReplies /\ [][Next]_vars

\* Runs on a pending tip, on a host of any zone.
ExpirePool == {"m2", "m3"}
InitExpire ==
    /\ Start
    /\ fmt = NoCall
    /\ timezone \in Zones
    /\ pool = ExpirePool
    /\ conf = [sorry |-> TRUE, notify |-> TRUE, banned_users |-> TRUE]
SpecExpire == InitExpire /\ [][Next]_vars

(***************************************************************************)
(* The loop followed forever, in a quiet environment: no call raises,      *)
(* except the execution of the action of a message of PoisonIds, which     *)
(* raises a storage error at every attempt, and the sweep, the fetch and   *)
(* the handling of the other messages run to their end.  Past MaxClock     *)
(* the clock is not advanced any more, so that main() can go on iterating  *)
(* in a finite state space.  The single thread of main() takes every step  *)
(* it can take; nothing is assumed of the deliveries.                      *)
(***************************************************************************)
LivePool == {"m2", "m7", "m12"}
InitLive ==
    /\ Start
    /\ fmt = NoCall
    /\ timezone = 0
    /\ pool = LivePool
    /\ conf = [sorry |-> TRUE, notify |-> TRUE, banned_users |-> TRUE]

QuietSweep == ExpireSweep /\ raised' = "none"

QuietFetch == Fetch /\ raised' = "none"

QuietProcess ==
    /\ ProcessMessage
    /\ \/ raised' = "none"
       \/ /\ raised' = "other"
          /\ last'.id \in PoisonIds
          /\ last'.executed
          /\ ~last'.mark_called

SleepOn ==
    /\ pc = "sleep"
    /\ clock' = Min(clock + SleepSeconds, MaxClock)
    /\ pc' = "expire"
    /\ last' = NoStep
    /\ UNCHANGED <<fmt, timezone, inbox, delivered, batch, idx, actions, balance, registered,
                   conf, pool, mutations, expiredCount, replies, raised,
                   notify_calls, notified, exit_status>>

LoopStep == QuietSweep \/ QuietFetch \/ QuietProcess \/ SleepOn

NextLive == (\E id \in MsgIds : Deliver(id)) \/ LoopStep

SpecLive == InitLive /\ [][NextLive]_vars /\ WF_vars(LoopStep)

\* A row of a query result, about to be put into its page.  The callers
\* pass no compact; update_stats and update_tips pass the username "".
InitFormat ==
    /\ Start
    /\ timezone = 0
    /\ pool = {}
    /\ conf = [sorry |-> TRUE, notify |-> TRUE, banned_users |-> TRUE]
    /\ \E c \in Callers, row \in Rows, u \in Usernames, cp \in BOOLEAN,
          off \in Offsets :
          /\ c = "format_value" => Len(row) = 1
          /\ c # "format_value" => ~cp
          /\ c \in {"update_stats_line", "update_stats_table", "update_tips"}
                => u = <<>>
          /\ c = "update_user_stats" => u # <<>>
          /\ off # 0 => Has(row, <<"c", "r", "e", "a", "t", "e", "d", "_", "u", "t", "c">>)
          /\ fmt = [NoCall EXCEPT !.caller = c, !.row = row, !.username = u,
                                  !.compact = cp, !.gmtoff = off]

\* update_user_stats, lines 205-209, before the values of the row: an
\* exception ends the building of the page.
CountRow ==
    /\ fmt.caller = "update_user_stats"
    /\ ~fmt.counted
    /\ fmt.line = NoLine
    /\ LET r == history_counts(fmt.row, fmt.username)
       IN  fmt' = IF r.err # "none"
                  THEN [fmt EXCEPT !.line = Raised(r.err)]
                  ELSE [fmt EXCEPT !.counted = TRUE,
                                   !.num_tipped = @ + r.tipped,
                                   !.num_received = @ + r.received]
    /\ UNCHANGED bot

\* for k in keys: values.append(format_value(m, k, username, ctb)), and
\* value = format_value(m, k, "", ctb) of the first column for a query of
\* type "line".  An exception of format_value ends the building of the page.
AppendValue ==
    /\ fmt.caller \in Callers
    /\ fmt.caller = "update_user_stats" => fmt.counted
    /\ Len(fmt.values) < (IF fmt.caller = "update_stats_line"
                          THEN 1 ELSE Len(fmt.row))
    /\ fmt.line = NoLine
    /\ LET c == fmt.row[Len(fmt.values) + 1]
           r == format_value(c.v, c.k, fmt.username, fmt.compact)
       IN  fmt' = IF r = TypeError
                  THEN [fmt EXCEPT !.line = TypeError]
                  ELSE [fmt EXCEPT !.values = Append(@, r)]
    /\ UNCHANGED bot

\* stats += ("|".join(values)) + "\n": the line, without its newline.
JoinRow ==
    /\ fmt.caller \in TableCallers
    /\ Len(fmt.values) = Len(fmt.row)
    /\ fmt.line = NoLine
    /\ fmt' = [fmt EXCEPT !.line = join(fmt.values)]
    /\ UNCHANGED bot

\* stats += "%s = **%s**\n" % (k, value): the line, without its newline.
FormatLine ==
    /\ fmt.caller = "update_stats_line"
    /\ Len(fmt.values) = 1
    /\ fmt.line = NoLine
    /\ fmt' = [fmt EXCEPT !.line =
                  Str(fmt.row[1].k \o <<" ", "=", " ", "*", "*">> \o pct_s(fmt.values[1])
                      \o <<"*", "*">>)]
    /\ UNCHANGED bot

NextFormat == CountRow \/ AppendValue \/ JoinRow \/ FormatLine

SpecFormat == InitFormat /\ [][NextFormat]_vars

TypeOK ==
    /\ pc \in {"expire", "inbox", "process", "downsleep", "sleep", "failed",
               "exited"}
    /\ clock \in 0 .. MaxClock
    /\ delivered \in 0 .. MaxDeliveries
    /\ Len(expiredCount) = Len(actions)
    /\ fmt.line.kind \in {"unset", "str", "TypeError", "KeyError",
                         "AttributeError"}
    /\ timezone \in Zones
    /\ Len(fmt.values) <= Len(fmt.row)
(***************************************************************************)
(* Claims.                                                                 *)
(***************************************************************************)
Range(q) == {q[i] : i \in DOMAIN q}

\* What an action costs its sender.
Cost(a) == IF a.type = "withdraw" THEN a.amount + TxFee ELSE a.amount

\* C1: idempotence of the inbox pass.  However often a message id is
\* delivered, in later batches or twice in one batch, the ledger holds at
\* most one action for it and at most one balance mutation was made for it;
\* once the message was skipped as a duplicate, or executed without an
\* exception, the ledger holds exactly one action for it, completed,
\* pending or declined.  (An execution that raises leaves one action or
\* none, as do() raised after its write or before it.)
C1_Idempotence ==
    /\ \A id \in MsgIds :
          /\ Cardinality(ActionsFor(actions, id)) <= 1
          /\ mutations[id] <= 1
          /\ mutations[id] = 1 => Cardinality(ActionsFor(actions, id)) = 1
    /\ last.path = "dedup" =>
          Cardinality(ActionsFor(actions, last.id)) = 1
    /\ (last.path = "action" /\ raised = "none") =>
          Cardinality(ActionsFor(actions, last.id)) = 1

\* C1 witness: m1 was declined, m2 completed, and the re-delivered m1 was
\* skipped as a duplicate, the ledger holding exactly these two actions.
C1_Witness ==
    /\ last.id = "m1"
    /\ last.path = "dedup"
    /\ Len(actions) = 2
    /\ actions[1].msg_id = "m1" /\ actions[1].state = "declined"
    /\ actions[2].msg_id = "m2" /\ actions[2].state = "completed"
    /\ mutations["m1"] = 0 /\ mutations["m2"] = 1

\* The condition C2 puts on every step.
C2_Step ==
    /\ \A u \in Users : balance[u] >= 0 /\ balance'[u] >= 0
    /\ (pc = "process" /\ Len(actions') = Len(actions) + 1) =>
          LET a == Parse(batch[idx])
          IN  (a.type \in {"givetip", "withdraw"}
                 /\ balance[a.from] < Cost(a)) =>
                 /\ actions'[Len(actions')].state = "declined"
                 /\ balance' = balance
                 /\ mutations' = mutations

\* C2: non-negativity.  No step makes a balance negative, and the execution
\* of a tip or withdrawal whose cost exceeds the balance of its sender saves
\* the action as declined (insufficient balance) and changes no balance.
C2_NonNegative == [][C2_Step]_vars

\* C2 witness: a withdrawal was declined for insufficient balance after a
\* completed tip had lowered the balance of its sender.
C2_Witness ==
    /\ \E i \in DOMAIN actions :
          actions[i].type = "withdraw" /\ actions[i].state = "declined"
    /\ \E i \in DOMAIN actions :
          actions[i].type = "givetip" /\ actions[i].state = "completed"
    /\ balance["bob"] = 1

\* C3: batch isolation.  When the handling of a message that is not the
\* last of its batch raises a storage error (an exception that is not a
\* transient upstream error), the pass goes on with the next message.
C3_BatchIsolation ==
    [][(pc = "process" /\ idx < Len(batch) /\ raised' = "other") =>
          (pc' = "process" /\ batch' = batch /\ idx' = idx + 1)]_vars
\* The condition C4 puts on every step.
C4_Step ==
    /\ (pc \in {"inbox", "process"} /\ raised' = "transient") =>
          (pc' = "downsleep" /\ exit_status' = -1)
    /\ pc = "downsleep" => (pc' = "sleep" /\ exit_status' = -1)
    /\ pc = "sleep" => (pc' = "expire" /\ exit_status' = -1)

\* C4: a transient upstream error raised by the fetch or by the handling of
\* a message does not end the process: check_inbox sleeps, main() sleeps,
\* and the next iteration starts with the expiry sweep.
C4_TransientSleeps == [][C4_Step]_vars

\* C4 witness: a new iteration has started after a transient error of the
\* inbox pass.
C4_Witness ==
    /\ pc = "expire"
    /\ raised = "transient"
    /\ clock >= 2 * SleepSeconds
    /\ exit_status = -1

\* C5: an exception of the fetch or of the handling of a message that is
\* not a transient upstream error moves the loop to Failed.
C5_OtherFails ==
    [][(pc \in {"inbox", "process"} /\ raised' = "other") =>
          pc' = "failed"]_vars

\* C6 (as stated): whenever the process has gone through Failed, an operator
\* notification was made.
C6_AlwaysNotified == pc = "exited" => notify_calls = 1

\* The condition C6 puts on every step.
C6_Step ==
    /\ pc' = "failed" => raised' # "none"
    /\ pc = "failed" =>
          /\ pc' = "exited"
          /\ exit_status' = 1
          /\ notify_calls' = IF conf.notify THEN 1 ELSE 0
          /\ notified' <= notify_calls'
          /\ UNCHANGED <<actions, balance, registered, inbox, batch, idx,
                         mutations, replies, expiredCount>>
    /\ pc # "failed" =>
          (notify_calls' = 0 /\ notified' = 0 /\ exit_status' = -1)
    /\ pc # "exited"

\* C6 (amended): Failed is entered only with an exception raised in the
\* iteration; its only step is the handler of main(), which calls notify()
\* if and only if notification is enabled, sends at most one notification,
\* and ends the process with status 1 in every case; nothing of the ledger,
\* the balances or the inbox changes in it, and no step follows the exit.
C6_FailedTerminal == [][C6_Step]_vars

\* C6 witness: the process went through Failed and exited with status 1
\* with notification disabled, no notification made.
C6_Witness ==
    /\ pc = "exited"
    /\ exit_status = 1
    /\ ~conf.notify
    /\ notify_calls = 0
    /\ raised # "none"

\* C7: an exception of the expiry sweep is swallowed: the iteration goes on
\* to the fetch of the inbox.
C7_SweepSwallowed ==
    [][(pc = "expire" /\ raised' # "none") =>
          (pc' = "inbox" /\ exit_status' = -1)]_vars
\* The pending tips older than the configured threshold.
OldPendingTips ==
    {i \in DOMAIN actions : /\ actions[i].type = "givetip"
                            /\ actions[i].state = "pending"
                            /\ clock - actions[i].created_utc > ExpireSeconds}

\* The condition C8 puts on every step.
C8_Step ==
    /\ \A i \in DOMAIN expiredCount' : expiredCount'[i] <= 1
    /\ pc = "expire" =>
          /\ balance' = balance
          /\ registered' = registered
          /\ mutations' = mutations
          /\ Len(actions') = Len(actions)
          /\ \A i \in DOMAIN actions :
                actions'[i] # actions[i] =>
                   /\ i \in OldPendingTips
                   /\ actions'[i] = [actions[i] EXCEPT !.state = "expired"]
                   /\ expiredCount'[i] = 1
          /\ raised' = "none" =>
                \A i \in OldPendingTips : actions'[i].state = "expired"
    /\ pc # "expire" =>
          \A i \in DOMAIN actions :
             actions[i].state = "expired" => actions'[i] = actions[i]

\* C8: expiry correctness.  A sweep changes no balance and adds no action;
\* the only rows it changes are pending tips older than the threshold,
\* which become expired; a sweep that ends without an exception expires all
\* of them; and over all the sweeps of a run no row is expired twice.
C8_Expiry == [][C8_Step]_vars

\* On a host in UTC the sweep does what C8 says.
C8_ExpiryInUTC == [][timezone = 0 => C8_Step]_vars

\* Whether a message is one the loop skips: a duplicate, a message of the
\* bot itself, or a message of a banned user.
IsDuplicate(id) == \E i \in DOMAIN actions : actions[i].msg_id = id
IsSelf(id) == Author(id) = BotName
IsBanned(id) == conf.banned_users /\ Author(id) \in BannedList

\* The condition C9 puts on every step.
C9_Step ==
    (pc = "process" /\ Author(batch[idx]) # NoAuthor) =>
       LET id == batch[idx]
       IN  /\ IsPrefix(<<"author", "dedup">>, last'.checks)
           /\ (IsDuplicate(id) \/ IsSelf(id) \/ IsBanned(id)) =>
                 /\ actions' = actions
                 /\ balance' = balance
                 /\ registered' = registered
                 /\ mutations' = mutations
                 /\ replies' = replies
                 /\ ~last'.parsed /\ ~last'.executed /\ ~last'.tell_called
                 /\ raised' = "none" =>
                       /\ last'.mark_called
                       /\ id \notin Range(inbox')
                 /\ ~last'.mark_called => last'.path = "fault"
           /\ IsDuplicate(id) => last'.checks = <<"author", "dedup">>

\* C9: a message that is a duplicate, of the bot itself or of a banned user
\* is skipped: it is not parsed or executed, no action is created, no
\* balance changes and no reply is sent, whether or not a call raises; when
\* no call raises, mark_as_read is called on it and the message is no
\* longer unread, and mark_as_read is left out only when one of the checks
\* itself raised.  The duplicate check comes right after the author is
\* looked at, before the self and banned checks.
C9_Skips == [][C9_Step]_vars

\* C9 witness: with the banned list in use, the message of a banned user
\* was skipped and marked read after a tip had made an action.
C9_Witness ==
    /\ last.id = "m6"
    /\ last.path = "banned"
    /\ last.marked
    /\ "m6" \notin Range(inbox)
    /\ Len(actions) = 1
    /\ actions[1].msg_id = "m1"

\* The subjects of the replies to a post or comment of the bot.
ReplySubjects == {"post reply", "comment reply"}

\* The condition C10 puts on every step.
C10_Step ==
    (/\ pc = "process"
     /\ Author(batch[idx]) # NoAuthor
     /\ ~IsDuplicate(batch[idx])
     /\ ~IsSelf(batch[idx])
     /\ ~IsBanned(batch[idx])
     /\ Parse(batch[idx]).type = "none") =>
       LET id == batch[idx]
           wanted == conf.sorry /\ Subject(id) \notin ReplySubjects
       IN  /\ last'.id = id
           /\ actions' = actions
           /\ balance' = balance
           /\ mutations' = mutations
           /\ ~last'.executed
           /\ last'.tell_called => wanted
           /\ replies'[id] = replies[id] + (IF last'.replied THEN 1 ELSE 0)
           /\ last'.replied => last'.tell_called
           /\ raised' = "none" =>
                 /\ last'.path = "nomatch"
                 /\ last'.parsed
                 /\ last'.tell_called <=> wanted
                 /\ last'.replied <=> wanted
                 /\ last'.marked
                 /\ id \notin Range(inbox')

\* C10: for a message that passes the skip checks and matches no pattern
\* no action is executed, and user.tell is called with a "didn't
\* understand" reply only if such replies are enabled and the subject is
\* neither "post reply" nor "comment reply", whether or not a call raises;
\* when no call raises, the message is parsed, user.tell is called and the
\* reply is sent exactly under that condition, and the message is marked
\* read in both cases.
C10_NoMatch == [][C10_Step]_vars

\* C10 witness: with replies enabled, the unmatched reply to a comment of
\* the bot was marked read without a reply, after an unmatched message with
\* another subject was answered.
C10_Witness ==
    /\ conf.sorry
    /\ last.id = "m11"
    /\ last.path = "nomatch"
    /\ ~last.replied
    /\ last.marked
    /\ replies["m7"] = 1
    /\ replies["m11"] = 0
\* The newest n elements of a sequence, in its order.
Newest(q, n) == SubSeq(q, Len(q) - Min(n, Len(q)) + 1, Len(q))

\* The condition C11 puts on every step.
C11_Step ==
    /\ (pc = "inbox" /\ pc' = "process") =>
          /\ Len(batch') <= BatchLimit
          /\ batch' = Newest(inbox, BatchLimit)
          /\ idx' = 1
    /\ pc = "process" =>
          /\ idx \in 1 .. Len(batch)
          /\ last'.id = batch[idx]
          /\ pc' = "process" => (batch' = batch /\ idx' = idx + 1)
    /\ (pc # "inbox" /\ pc' = "process") => pc = "process"

\* C11: a fetch takes at most the batch limit of unread messages, and the
\* pass handles them oldest first (in the order of the inbox), one message
\* per step: each step of the pass handles the message at the position of
\* the loop, whole, and the position then moves to the next newer message
\* of the same batch.
C11_InOrder == [][C11_Step]_vars

\* C11 witness: three messages are unread, the fetch took the two newest
\* of them, and the older of the two has been handled, the newer one being
\* next.
C11_Witness ==
    /\ pc = "process"
    /\ delivered = 3
    /\ Len(inbox) = 2
    /\ inbox[1] \notin Range(batch)
    /\ inbox[2] = batch[2]
    /\ Len(batch) = BatchLimit
    /\ idx = 2
    /\ last.id = batch[1]
    /\ batch[1] # batch[2]
\* C13: at most one "didn't understand" reply is ever sent for one message
\* id, also when the message is delivered again after mark_as_read failed
\* with a transient error.
C13_OneReply == \A id \in MsgIds : replies[id] <= 1
\* C12: every message a fetch returned, other than one whose action raises
\* at every attempt, is marked read after finitely many iterations, also
\* when it follows such a message in its batch.
C12_EventuallyRead ==
    \A id \in MsgIds \ PoisonIds :
       (id \in Range(batch)) ~> (id \notin Range(inbox))

\* The same, of the runs in which no message of PoisonIds is delivered.
C12_ReadWithoutPoison ==
    (\E id \in PoisonIds : <>(id \in Range(inbox))) \/ C12_EventuallyRead
\* The cells of the row for which format_value has returned.
Formatted == DOMAIN fmt.values

\* C14: format_value returns a string for every row value and column name,
\* "-" for a falsy value and a string for every value of a column whose name
\* contains "type", compact or not, so that the row built from its results
\* can always be joined.
C14_AlwaysString ==
    /\ \A i \in Formatted :
          /\ fmt.values[i].kind = "str"
          /\ ~Truthy(fmt.row[i].v) => fmt.values[i].s = <<"-">>
    /\ fmt.line.kind # "TypeError"

\* Of the rows whose values have the types of their columns in the ledger:
\* no result is returned only in the "type" branch, for a value other than
\* "givetip" and, when compact, "withdraw"; the join of such a row fails
\* exactly when one of its values is such a result.
WellTyped(c) ==
    /\ c.k \notin {<<"s", "t", "a", "t", "e", "_", "c", "o", "u", "n", "t">>, <<"a", "d", "d", "r", "_", "c", "o", "u", "n", "t">>}
    /\ c.v.t = "float" => c.k = <<"c", "o", "i", "n", "_", "v", "a", "l">>
C14_NoneOnlyForType ==
    (\A i \in DOMAIN fmt.row : WellTyped(fmt.row[i])) =>
       /\ \A i \in Formatted :
             /\ ~Truthy(fmt.row[i].v) => fmt.values[i] = Str(<<"-">>)
             /\ fmt.values[i].kind # "str" =>
                   /\ fmt.values[i] = None
                   /\ find(fmt.row[i].k, <<"t", "y", "p", "e">>) > -1
                   /\ fmt.row[i].v # StrVal(<<"g", "i", "v", "e", "t", "i", "p">>)
                   /\ ~(fmt.compact /\ fmt.row[i].v = StrVal(<<"w", "i", "t", "h", "d", "r", "a", "w">>))
       /\ fmt.line.kind = "TypeError" <=>
             /\ fmt.caller \in TableCallers
             /\ fmt.line # NoLine
             /\ \E i \in Formatted : fmt.values[i] = None
====
